---- MODULE Spec2Model ----
(***************************************************************************)
(* Model of the ShopperOS API service layer (app/services/embeddings.py)   *)
(* and of its routers (app/routers/*.py).                                  *)
(*                                                                         *)
(* The specifications share the variables:                                 *)
(*   Spec      the taste-vector store (get_user_taste_vector and           *)
(*             save_user_taste_vector run by concurrent request threads)   *)
(*             and the three handlers that read svc.user_taste_vectors;    *)
(*   SpecRank  the ranking handlers over a loaded catalog: search_similar, *)
(*             get_alternatives, get_gift_suggestions;                     *)
(*   SpecApi   one thread: the store and the handlers that read            *)
(*             svc.user_taste_vectors;                                     *)
(*   SpecLoad  the first requests obtaining the service singleton          *)
(*             (get_embedding_service, EmbeddingService.__new__).          *)
(*                                                                         *)
(* Python values: None is the empty tuple; a vector is a non-empty tuple   *)
(* of integers; a dict is a function whose DOMAIN is its key set; a str of *)
(* digits (a product id) is a sequence of digits.                          *)
(***************************************************************************)
EXTENDS Integers, Sequences, FiniteSets, TLC

VARIABLES
    embeddings,                 \* self.embeddings: row -> vector
    id_to_idx,                  \* self.id_to_idx: product id -> row
    idx_to_id,                  \* self.idx_to_id: row -> product id
    products,                   \* self.products: the DataFrame, keyed by its "id" column
    popular_products,           \* self.popular_products
    demo_taste_vectors,         \* self.demo_taste_vectors: user -> vector
    supabase,                   \* self.supabase is a client (TRUE) or None (FALSE)
    user_taste_vectors_cache,   \* self.user_taste_vectors_cache: user -> vector
    remote_table,               \* the rows of the external table "user_taste_vectors"
    calls,                      \* per request thread: the service call it is running
    singleton,                  \* EmbeddingService._instance, its objects, the memo
                                \* of get_embedding_service, and each thread's place in them
    resp                        \* the last response produced by a router handler

vars == <<embeddings, id_to_idx, idx_to_id, products, popular_products,
          demo_taste_vectors, supabase, user_taste_vectors_cache, remote_table,
          calls, singleton, resp>>

\* what the requests to a constructed service leave alone
loaded == <<embeddings, id_to_idx, idx_to_id, products, popular_products,
            demo_taste_vectors, supabase, singleton>>

-----------------------------------------------------------------------------
(* Bounds of the model *)

NumProcs == 2       \* concurrent request threads
NumRows == 3        \* rows of the embedding matrix
MaxK == 2           \* largest requested k
MaxList == 2        \* longest gift list

Procs == 1..NumProcs
Rows == 0..(NumRows - 1)
Ks == 0..MaxK

\* Program constants
AltOverfetch == 2           \* search_similar(emb, k=k * 2)
GiftOverfetch == 5          \* search_similar(list_taste, k=k * 5)
SampleSize == 3             \* cat_prods.sample(min(3, len(cat_prods)))
DiscoverySectionSize == 5   \* svc.popular_products[:5]

None == <<>>

Users == {"u1", "u2"}
DemoUsers == {"u1"}
TasteVectors == {<<1, 0>>, <<0, 1>>}
DemoVector == <<1, 1>>

Min(a, b) == IF a <= b THEN a ELSE b

\* d[k] = v on a dict
Put(d, k, v) == [x \in (DOMAIN d) \cup {k} |-> IF x = k THEN v ELSE d[x]]

\* d.get(k): the value or None
Get(d, k) == IF k \in DOMAIN d THEN d[k] ELSE None

EmptyDict == [x \in {} |-> None]

-----------------------------------------------------------------------------
(* The taste-vector store: EmbeddingService.get_user_taste_vector and      *)
(* save_user_taste_vector.  Each call is a thread of the serving layer's   *)
(* pool; a thread switch can fall between any two statements, and the      *)
(* external calls are I/O, so each call is split at the external call.     *)

\* vector_list = taste_vector.tolist(): the JSON payload of the upsert
ToList(v) == [i \in 1..Len(v) |-> v[i]]

\* np.array(result.data[0]["taste_vector"], dtype=np.float32)
FromList(l) == [i \in 1..Len(l) |-> l[i]]

IdleCall == [op |-> "none", pc |-> "idle", user |-> "u1", arg |-> None,
             tier |-> "none", fetched |-> None, ret |-> None, ok |-> FALSE]

\* lines 81-85: the demo tier, then None
DemoLookup(u) == IF u \in DOMAIN demo_taste_vectors THEN demo_taste_vectors[u] ELSE None

\* a variant in which an error of the external call skips the demo tier
AfterStoreMissSkipsDemo(u, outcome) == IF outcome = "error" THEN None ELSE DemoLookup(u)

\* what a call returns once the external tier missed or raised (lines 78-85)
AfterStoreMiss(u, outcome) == DemoLookup(u)

Returned(p) == calls[p].pc \in {"idle", "done"}

\* lines 66-71: cache hit returns; otherwise on to the external store when a
\* client is configured, else the demo tier
GetCall(p, u) ==
    /\ Returned(p)
    /\ LET c == [IdleCall EXCEPT !.op = "get", !.user = u] IN
       calls' = [calls EXCEPT ![p] =
          IF u \in DOMAIN user_taste_vectors_cache
          THEN [c EXCEPT !.pc = "done", !.tier = "cache",
                         !.ret = user_taste_vectors_cache[u]]
          ELSE IF supabase
          THEN [c EXCEPT !.pc = "select"]
          ELSE [c EXCEPT !.pc = "done", !.tier = "unconfigured",
                         !.ret = AfterStoreMiss(u, "unconfigured")]]
    /\ UNCHANGED <<loaded, user_taste_vectors_cache, remote_table, resp>>

\* lines 72-75 and 78-85: the select returns a row, returns no row, or raises
GetSelect(p) ==
    /\ calls[p].pc = "select"
    /\ LET c == calls[p]
           u == c.user IN
       \E raised \in BOOLEAN :
          calls' = [calls EXCEPT ![p] =
             IF raised
             THEN [c EXCEPT !.pc = "done", !.tier = "error",
                            !.ret = AfterStoreMiss(u, "error")]
             ELSE IF u \in DOMAIN remote_table
             THEN [c EXCEPT !.pc = "cache_write", !.tier = "hit",
                            !.fetched = FromList(remote_table[u])]
             ELSE [c EXCEPT !.pc = "done", !.tier = "miss",
                            !.ret = AfterStoreMiss(u, "miss")]]
    /\ UNCHANGED <<loaded, user_taste_vectors_cache, remote_table, resp>>

\* lines 76-77
GetCacheWrite(p) ==
    /\ calls[p].pc = "cache_write"
    /\ user_taste_vectors_cache' =
          Put(user_taste_vectors_cache, calls[p].user, calls[p].fetched)
    /\ calls' = [calls EXCEPT ![p].pc = "done", ![p].ret = calls[p].fetched,
                             ![p].fetched = None]
    /\ UNCHANGED <<loaded, remote_table, resp>>

\* lines 89-91
SetCall(p, u, v) ==
    /\ Returned(p)
    /\ LET c == [IdleCall EXCEPT !.op = "set", !.user = u, !.arg = v] IN
       calls' = [calls EXCEPT ![p] =
          IF ~supabase
          THEN [c EXCEPT !.pc = "done", !.tier = "unconfigured", !.ok = FALSE]
          ELSE [c EXCEPT !.pc = "upsert"]]
    /\ UNCHANGED <<loaded, user_taste_vectors_cache, remote_table, resp>>

\* lines 93-102 and 109-111: the upsert is applied, or raises
SetUpsert(p) ==
    /\ calls[p].pc = "upsert"
    /\ \E raised \in BOOLEAN :
          IF raised
          THEN /\ calls' = [calls EXCEPT ![p].pc = "done", ![p].tier = "error",
                                         ![p].ok = FALSE]
               /\ UNCHANGED remote_table
          ELSE /\ remote_table' = Put(remote_table, calls[p].user, ToList(calls[p].arg))
               /\ calls' = [calls EXCEPT ![p].pc = "set_cache", ![p].tier = "hit"]
    /\ UNCHANGED <<loaded, user_taste_vectors_cache, resp>>

\* a variant that forgets the cache update
CacheAfterSaveSkipped(cache, u, v) == cache

\* what the save leaves in the cache once the upsert has been applied (line 105)
CacheAfterSave(cache, u, v) == Put(cache, u, v)

\* lines 104-108
SetCacheWrite(p) ==
    /\ calls[p].pc = "set_cache"
    /\ user_taste_vectors_cache' =
          CacheAfterSave(user_taste_vectors_cache, calls[p].user, calls[p].arg)
    /\ calls' = [calls EXCEPT ![p].pc = "done", ![p].ok = TRUE]
    /\ UNCHANGED <<loaded, remote_table, resp>>

-----------------------------------------------------------------------------
(* Handlers that read svc.user_taste_vectors.  EmbeddingService sets the   *)
(* attributes listed in ServiceAttributes (in _load) and no other; it      *)
(* defines no __getattr__.  Evaluating svc.user_taste_vectors therefore    *)
(* raises AttributeError, in the first statement of get_personalized_      *)
(* catalog and of get_gift_suggestions_for_user, and in the first branch   *)
(* of get_discovery_feed, before any list is built.                        *)

ServiceAttributes ==
    {"embeddings", "id_to_idx", "idx_to_id", "products", "demo_taste_vectors",
     "user_taste_vectors_cache", "popular_products", "trending", "supabase"}

HasAttr(name) == name \in ServiceAttributes

\* the handler raises: the serving layer answers with an error status, and
\* nothing of the request is in the answer
AttributeError(op) == [op |-> op, kind |-> "AttributeError"]

\* catalog.py line 40: `if user_id not in svc.user_taste_vectors`
GetPersonalizedCatalog(u, k) ==
    /\ ~HasAttr("user_taste_vectors")
    /\ resp' = AttributeError("get_personalized_catalog")
    /\ UNCHANGED <<loaded, user_taste_vectors_cache, remote_table, calls>>

\* discovery.py line 19: `if user_id in svc.user_taste_vectors`
GetDiscoveryFeed(u) ==
    /\ ~HasAttr("user_taste_vectors")
    /\ resp' = AttributeError("get_discovery_feed")
    /\ UNCHANGED <<loaded, user_taste_vectors_cache, remote_table, calls>>

\* gifts.py line 148: `if recipient_user_id not in svc.user_taste_vectors`
GetGiftSuggestionsForUser(u, k) ==
    /\ ~HasAttr("user_taste_vectors")
    /\ resp' = AttributeError("get_gift_suggestions_for_user")
    /\ UNCHANGED <<loaded, user_taste_vectors_cache, remote_table, calls>>

-----------------------------------------------------------------------------
(* Product ids and the loaded catalog *)

\* str.lstrip("0")
RECURSIVE Lstrip(_)
Lstrip(s) == IF s # <<>> /\ Head(s) = 0 THEN Lstrip(Tail(s)) ELSE s

\* the id of the product embedded in row i, as the id mappings hold it
RowId(i) == <<i + 1>>

\* a product of the catalog that has no embedding row, and an id of no product
UnembeddedId == <<9>>
UnknownId == <<8>>

\* the ids as the parquet file spells them (zero-padded article ids)
RawId(id) == <<0>> \o id

\* line 43 of _load: the "id" column is stripped of its leading zeros
LoadProducts(rawRows) ==
    [id \in {Lstrip(r.id) : r \in rawRows} |->
        LET r == CHOOSE x \in rawRows : Lstrip(x.id) = id IN
        [id |-> id, category |-> r.category, color |-> r.color]]

\* get_product returns None (lines 125-128)
ProductMissing(product_id) == Lstrip(product_id) \notin DOMAIN products

\* get_product, lines 123-139 (the fields no handler branches on are left out)
GetProduct(product_id) ==
    IF ProductMissing(product_id) THEN None ELSE products[Lstrip(product_id)]

\* get_embedding returns None (lines 143-145)
EmbeddingMissing(product_id) == Lstrip(product_id) \notin DOMAIN id_to_idx

\* get_embedding, lines 141-147
GetEmbedding(product_id) ==
    IF EmbeddingMissing(product_id) THEN None
    ELSE embeddings[id_to_idx[Lstrip(product_id)]]

-----------------------------------------------------------------------------
(* search_similar *)

RECURSIVE DotFrom(_, _, _)
DotFrom(a, b, i) == IF i > Len(a) THEN 0 ELSE a[i] * b[i] + DotFrom(a, b, i + 1)

\* one entry of `self.embeddings @ query_vec`
Dot(a, b) == DotFrom(a, b, 1)

\* scores = self.embeddings @ query_vec (line 119)
ScoresOf(q) == [i \in Rows |-> Dot(embeddings[i], q)]

\* np.argsort(scores): a permutation of the rows in ascending score order.
\* The default kind is not a stable sort, so rows of equal score come in an
\* order the numpy build decides.
Argsort(scores) ==
    {o \in [1..NumRows -> Rows] :
        /\ \A i, j \in 1..NumRows : i # j => o[i] # o[j]
        /\ \A i, j \in 1..NumRows : i < j => scores[o[i]] <= scores[o[j]]}

\* a[start:] of Python, start any integer
SliceFrom(a, start) ==
    LET n == Len(a)
        s == IF start < 0 THEN (IF n + start < 0 THEN 0 ELSE n + start)
             ELSE Min(start, n)
    IN  SubSeq(a, s + 1, n)

\* a[::-1]
Reverse(a) == [i \in 1..Len(a) |-> a[Len(a) + 1 - i]]

\* np.argsort(scores)[-k:][::-1] (line 120); -k is 0 when k is 0
TopK(order, k) == Reverse(SliceFrom(order, 0 - k))

\* search_similar, lines 117-121: every (top_k, scores[top_k]) it can return
SearchSimilar(q, k) ==
    LET scores == ScoresOf(q) IN
    {[indices |-> TopK(o, k),
      scores |-> [i \in 1..Len(TopK(o, k)) |-> scores[TopK(o, k)[i]]]] :
        o \in Argsort(scores)}

-----------------------------------------------------------------------------
(* get_alternatives *)

\* a variant that compares with product_id as it was spelled
SkipSelfUnstripped(pid, product_id) == pid = product_id

\* line 37: `if pid == str(product_id).lstrip("0"): continue`
SkipSelf(pid, product_id) == pid = Lstrip(product_id)

\* lines 44-51
AltReasons(prod, source) ==
    LET same == (IF prod.category = source.category THEN <<"Same style">> ELSE <<>>)
                \o (IF prod.color = source.color THEN <<"Same color">> ELSE <<>>)
    IN  IF same = <<>> THEN <<"Similar style">> ELSE same

\* the loop of lines 33-58, from position i of the search result on
RECURSIVE AltWalk(_, _, _, _, _, _)
AltWalk(found, i, acc, product_id, source, k) ==
    IF i > Len(found.indices) THEN acc
    ELSE
      LET pid == idx_to_id[found.indices[i]] IN
      IF SkipSelf(pid, product_id) \/ ProductMissing(pid)
      THEN AltWalk(found, i + 1, acc, product_id, source, k)
      ELSE
        LET prod == GetProduct(pid)
            item == [id |-> prod.id, category |-> prod.category, color |-> prod.color,
                     similarity |-> found.scores[i],
                     reasons |-> AltReasons(prod, source)]
            next == Append(acc, item)
        IN  IF Len(next) >= k THEN next
            ELSE AltWalk(found, i + 1, next, product_id, source, k)

\* get_alternatives, lines 8-64
GetAlternatives(product_id, k) ==
    /\ IF ProductMissing(product_id)
       THEN resp' = [op |-> "get_alternatives", product_id |-> product_id, k |-> k,
                     error |-> "Product not found"]
       ELSE IF EmbeddingMissing(product_id)
       THEN resp' = [op |-> "get_alternatives", product_id |-> product_id, k |-> k,
                     error |-> "No embedding for product"]
       ELSE \E found \in SearchSimilar(GetEmbedding(product_id), k * AltOverfetch) :
               resp' = [op |-> "get_alternatives", product_id |-> product_id, k |-> k,
                        error |-> "",
                        source_product |-> GetProduct(product_id),
                        alternatives |->
                           AltWalk(found, 1, <<>>, product_id,
                                   GetProduct(product_id), k)]
    /\ UNCHANGED <<loaded, user_taste_vectors_cache, remote_table, calls>>

-----------------------------------------------------------------------------
(* get_gift_suggestions *)

\* a[:k] of Python, k any integer
Prefix(a, k) ==
    LET n == Len(a) IN
    IF k >= 0 THEN SubSeq(a, 1, Min(k, n))
    ELSE SubSeq(a, 1, IF n + k < 0 THEN 0 ELSE n + k)

GiftCategories == <<"Dress", "Sweater", "Bag">>

\* cat_prods.sample(min(3, len(cat_prods))): every order of every choice of
\* that many rows of the category (lines 42-44)
Samples(cat) ==
    LET ids == {id \in DOMAIN products : products[id].category = cat}
        n == Min(SampleSize, Cardinality(ids))
    IN  {s \in [1..n -> ids] : \A i, j \in 1..n : i # j => s[i] # s[j]}

\* lines 45-53
PopularItem(id, cat) ==
    [product_id |-> products[id].id, category |-> products[id].category,
     color |-> products[id].color, reason |-> "Popular gift"]

\* lines 37-55: the responses of the empty-list branch
EmptyListResponses(items, k, diversify) ==
    {[op |-> "get_gift_suggestions", gift_list_items |-> items, k |-> k,
      diversify |-> diversify, is_empty_list |-> TRUE,
      suggestions |->
         Prefix([i \in 1..Len(s1) |-> PopularItem(s1[i], GiftCategories[1])]
                \o [i \in 1..Len(s2) |-> PopularItem(s2[i], GiftCategories[2])]
                \o [i \in 1..Len(s3) |-> PopularItem(s3[i], GiftCategories[3])], k)] :
        <<s1, s2, s3>> \in Samples(GiftCategories[1]) \X Samples(GiftCategories[2])
                              \X Samples(GiftCategories[3])}

\* lines 62-70: the list items that have an embedding, in list order
RECURSIVE Resolved(_)
Resolved(items) ==
    IF items = <<>> THEN <<>>
    ELSE (IF EmbeddingMissing(Lstrip(Head(items))) THEN <<>>
          ELSE <<Lstrip(Head(items))>>) \o Resolved(Tail(items))

\* those of them that are products, in list order (lines 67-70)
RECURSIVE WithProduct(_)
WithProduct(ids) ==
    IF ids = <<>> THEN <<>>
    ELSE (IF ProductMissing(Head(ids)) THEN <<>> ELSE <<Head(ids)>>)
         \o WithProduct(Tail(ids))

RECURSIVE VectorSum(_)
VectorSum(ids) ==
    IF Len(ids) = 1 THEN GetEmbedding(ids[1])
    ELSE LET a == GetEmbedding(ids[1])
             b == VectorSum(Tail(ids))
         IN  [i \in 1..Len(a) |-> a[i] + b[i]]

\* lines 79-80: the normalised mean of the list vectors.  The mean and the
\* normalisation divide the sum by positive numbers (n, and norm + 1e-8), so
\* the scores against list_taste are the scores against the sum scaled by one
\* positive factor: same order, same ties.  The model keeps the sum.
ListTaste(ids) == VectorSum(ids)

Count(seq, x) == Cardinality({i \in 1..Len(seq) : seq[i] = x})

\* Counter(values).most_common(1)[0][0] if values else None: the value of
\* highest count, the first inserted among equals; the empty set is None
MostCommon(seq) ==
    IF seq = <<>> THEN {}
    ELSE LET best == CHOOSE i \in 1..Len(seq) :
                        /\ \A j \in 1..Len(seq) : Count(seq, seq[j]) <= Count(seq, seq[i])
                        /\ \A j \in 1..(i - 1) : Count(seq, seq[j]) < Count(seq, seq[i])
         IN  {seq[best]}

\* lines 108-114
GiftReason(cat, color, top_category, top_color) ==
    IF cat \in top_category THEN "Matches their love of category"
    ELSE IF color \in top_color THEN "In their favorite color"
    ELSE "Complements items on their list"

\* a variant that never skips a category
SkipCategoryNever(diversify, cat, seen_categories) == FALSE

\* line 105: `if diversify and cat in seen_categories: continue`
SkipCategory(diversify, cat, seen_categories) == diversify /\ cat \in seen_categories

\* the loop of lines 92-130, from position i of the search result on
RECURSIVE GiftWalk(_, _, _, _, _, _, _, _, _)
GiftWalk(found, i, acc, seen_ids, seen_categories, diversify, top_category, top_color, k) ==
    IF i > Len(found.indices) THEN acc
    ELSE
      LET pid == idx_to_id[found.indices[i]] IN
      IF pid \in seen_ids \/ ProductMissing(pid)
         \/ SkipCategory(diversify, GetProduct(pid).category, seen_categories)
      THEN GiftWalk(found, i + 1, acc, seen_ids, seen_categories, diversify,
                    top_category, top_color, k)
      ELSE
        LET prod == GetProduct(pid)
            item == [product_id |-> pid, category |-> prod.category,
                     color |-> prod.color, similarity |-> found.scores[i],
                     reason |-> GiftReason(prod.category, prod.color,
                                           top_category, top_color)]
            next == Append(acc, item)
            cats == IF diversify THEN seen_categories \cup {prod.category}
                    ELSE seen_categories
        IN  IF Len(next) >= k THEN next
            ELSE GiftWalk(found, i + 1, next, seen_ids, cats, diversify,
                          top_category, top_color, k)

\* lines 57-132: the responses for a list with at least one embedded item
RankedListResponses(items, k, diversify) ==
    LET ids == Resolved(items)
        prods == WithProduct(ids)
        top_category == MostCommon([i \in 1..Len(prods) |-> GetProduct(prods[i]).category])
        top_color == MostCommon([i \in 1..Len(prods) |-> GetProduct(prods[i]).color])
        seen_ids == {Lstrip(items[i]) : i \in 1..Len(items)}
    IN  {[op |-> "get_gift_suggestions", gift_list_items |-> items, k |-> k,
          diversify |-> diversify, is_empty_list |-> FALSE,
          suggestions |-> GiftWalk(found, 1, <<>>, seen_ids, {}, diversify,
                                   top_category, top_color, k)] :
            found \in SearchSimilar(ListTaste(ids), k * GiftOverfetch)}

\* get_gift_suggestions, lines 24-132; a list none of whose items has an
\* embedding is answered as the empty list is (lines 72-76)
GetGiftSuggestions(items, k, diversify) ==
    /\ resp' \in IF items = <<>> \/ Resolved(items) = <<>>
                 THEN EmptyListResponses(items, k, diversify)
                 ELSE RankedListResponses(items, k, diversify)
    /\ UNCHANGED <<loaded, user_taste_vectors_cache, remote_table, calls>>

\* search_similar called on its own
SearchSimilarCall(q, k) ==
    /\ \E found \in SearchSimilar(q, k) :
          resp' = [op |-> "search_similar", query_vec |-> q, k |-> k,
                   indices |-> found.indices, scores |-> found.scores]
    /\ UNCHANGED <<loaded, user_taste_vectors_cache, remote_table, calls>>

-----------------------------------------------------------------------------
(* The state after construction (_load, lines 28-62) *)

\* nothing normalises the rows of the matrix: a longer row can outscore the
\* query's own row
EmbeddingVectors == {<<1, 0>>, <<2, 1>>}
QueryVectors == {<<1, 0>>, <<0, 1>>}
Categories == {"Dress", "Socks"}
ColorOf(i) == IF i % 2 = 0 THEN "Black" ELSE "Red"

\* the parquet rows: one per embedded product that the file holds, and one
\* product without an embedding
RawRows(category, absent) ==
    {[id |-> RawId(RowId(i)), category |-> category[i], color |-> ColorOf(i)] :
        i \in Rows \ absent}
    \cup {[id |-> RawId(UnembeddedId), category |-> "Bag", color |-> "Red"]}

\* lines 35-38: the two id mappings are each other's inverse, over stripped
\* ids: get_embedding looks a stripped id up in id_to_idx (lines 143-146), and
\* the gift walk tests idx_to_id values against stripped ids (gifts.py 86-95)
LoadMappings ==
    /\ idx_to_id = [i \in Rows |-> RowId(i)]
    /\ id_to_idx = [id \in {RowId(i) : i \in Rows} |->
                       CHOOSE i \in Rows : RowId(i) = id]

\* lines 45-57
LoadTaste ==
    /\ demo_taste_vectors = [u \in DemoUsers |-> DemoVector]
    /\ popular_products = [i \in 1..NumRows |-> RawId(RowId(i - 1))]
    /\ user_taste_vectors_cache = EmptyDict

Dicts(keys, values) == UNION {[d -> values] : d \in SUBSET keys}

\* no object: EmbeddingService._instance before the first construction
NoObject == 0

\* the object thread p's super().__new__(cls) makes
NewObject(p) == p

Objects == {NewObject(p) : p \in Procs}

IdleThread == [pc |-> "idle", target |-> NoObject, got |-> NoObject]

\* the class and the memo before any request (lines 20 and 149)
FreshSingleton ==
    [instance |-> NoObject,
     load |-> [o \in Objects |-> "none"],
     loads |-> 0,
     memo |-> NoObject,
     threads |-> [p \in Procs |-> IdleThread]]

\* the service once a first request has built it, alone
BuiltSingleton ==
    [FreshSingleton EXCEPT !.instance = NewObject(1),
                           !.load = [o \in Objects |->
                                        IF o = NewObject(1) THEN "done" ELSE "none"],
                           !.loads = 1,
                           !.memo = NewObject(1)]

\* Spec: one catalog; the external table holds any rows, and the client is
\* configured or not (get_supabase_client, lines 11-17)
Init ==
    /\ embeddings = [i \in Rows |-> IF i = 0 THEN <<1, 0>> ELSE <<2, 1>>]
    /\ products = LoadProducts(RawRows([i \in Rows |-> "Dress"], {}))
    /\ LoadMappings
    /\ LoadTaste
    /\ supabase \in BOOLEAN
    /\ remote_table \in Dicts(Users, {ToList(v) : v \in TasteVectors})
    /\ calls = [p \in Procs |-> IdleCall]
    /\ singleton = BuiltSingleton
    /\ resp = [op |-> "none"]

\* SpecRank: every small catalog; no request touches the taste store
InitRank ==
    /\ embeddings \in [Rows -> EmbeddingVectors]
    /\ \E category \in [Rows -> Categories], absent \in {{}, {NumRows - 1}} :
          products = LoadProducts(RawRows(category, absent))
    /\ LoadMappings
    /\ LoadTaste
    /\ supabase = FALSE
    /\ remote_table = EmptyDict
    /\ calls = [p \in Procs |-> IdleCall]
    /\ singleton = BuiltSingleton
    /\ resp = [op |-> "none"]

\* SpecLoad: the process before its first request.  The data variables hold
\* what the files hold; an object has them as attributes once a _load of it
\* has run to its end (singleton.load).
InitLoad ==
    /\ embeddings = [i \in Rows |-> IF i = 0 THEN <<1, 0>> ELSE <<2, 1>>]
    /\ products = LoadProducts(RawRows([i \in Rows |-> "Dress"], {}))
    /\ LoadMappings
    /\ LoadTaste
    /\ supabase = FALSE
    /\ remote_table = EmptyDict
    /\ calls = [p \in Procs |-> IdleCall]
    /\ singleton = FreshSingleton
    /\ resp = [op |-> "none"]

-----------------------------------------------------------------------------
(* Requests *)

ProductIdInputs ==
    {RowId(i) : i \in Rows} \cup {RawId(RowId(i)) : i \in Rows}
    \cup {UnembeddedId, UnknownId}

GiftItemInputs == {RawId(RowId(1)), UnknownId}

GiftListInputs == UNION {[1..n -> GiftItemInputs] : n \in 0..MaxList}

\* Spec: the request threads of the pool, each running calls of the store
Next ==
    \/ \E p \in Procs, u \in Users : GetCall(p, u)
    \/ \E p \in Procs : GetSelect(p)
    \/ \E p \in Procs : GetCacheWrite(p)
    \/ \E p \in Procs, u \in Users, v \in TasteVectors : SetCall(p, u, v)
    \/ \E p \in Procs : SetUpsert(p)
    \/ \E p \in Procs : SetCacheWrite(p)

Spec == Init /\ [][Next]_vars

\* SpecApi: one thread; calls of the store and the handlers that read
\* svc.user_taste_vectors, one after the other
NextApi ==
    \/ \E u \in Users : GetCall(1, u)
    \/ GetSelect(1)
    \/ GetCacheWrite(1)
    \/ \E u \in Users, v \in TasteVectors : SetCall(1, u, v)
    \/ SetUpsert(1)
    \/ SetCacheWrite(1)
    \/ \E u \in Users, k \in Ks : GetPersonalizedCatalog(u, k)
    \/ \E u \in Users : GetDiscoveryFeed(u)
    \/ \E u \in Users, k \in Ks : GetGiftSuggestionsForUser(u, k)

SpecApi == Init /\ [][NextApi]_vars

\* SpecRank: the ranking handlers keep no state between requests, so a
\* behaviour is a loaded service answering one request
NextRank ==
    \/ \E q \in QueryVectors, k \in Ks :
          resp.op = "none" /\ SearchSimilarCall(q, k)
    \/ \E product_id \in ProductIdInputs, k \in Ks :
          resp.op = "none" /\ GetAlternatives(product_id, k)
    \/ \E items \in GiftListInputs, k \in Ks, diversify \in BOOLEAN :
          resp.op = "none" /\ GetGiftSuggestions(items, k, diversify)
    \/ \E u \in Users, k \in Ks : resp.op = "none" /\ GetPersonalizedCatalog(u, k)
    \/ \E u \in Users : resp.op = "none" /\ GetDiscoveryFeed(u)
    \/ \E u \in Users, k \in Ks : resp.op = "none" /\ GetGiftSuggestionsForUser(u, k)

SpecRank == InitRank /\ [][NextRank]_vars

-----------------------------------------------------------------------------
(* Properties of the ranking handlers (SpecRank) *)

AlternativesAnswered == resp.op = "get_alternatives" /\ resp.error = ""

RankedGiftAnswered == resp.op = "get_gift_suggestions" /\ ~resp.is_empty_list

NonIncreasing(items) ==
    \A i, j \in 1..Len(items) : i < j => items[i].similarity >= items[j].similarity

DistinctCategories(items) ==
    \A i, j \in 1..Len(items) : i # j => items[i].category # items[j].category

\* C1: for 0 <= k <= number of index rows, every ranked result list holds at
\* most k items, in non-increasing score order.  (get_personalized_catalog and
\* get_gift_suggestions_for_user raise before they build a list.)
C1_AtMostKInScoreOrder ==
    /\ AlternativesAnswered /\ resp.k <= NumRows =>
          /\ Len(resp.alternatives) <= resp.k
          /\ NonIncreasing(resp.alternatives)
    /\ RankedGiftAnswered /\ resp.k <= NumRows =>
          /\ Len(resp.suggestions) <= resp.k
          /\ NonIncreasing(resp.suggestions)

\* C5: nearest(q, k) returns exactly min(k, rows) row indices, by descending
\* score, rows of equal score in ascending row order, for every k >= 0.
C5_NearestExactlyKTiesAscending ==
    resp.op = "search_similar" =>
       /\ Len(resp.indices) = Min(resp.k, NumRows)
       /\ \A i, j \in 1..Len(resp.indices) : i < j =>
             \/ resp.scores[i] > resp.scores[j]
             \/ resp.scores[i] = resp.scores[j] /\ resp.indices[i] < resp.indices[j]

\* C6: get_alternatives never lists the seed product among the alternatives,
\* whatever the spelling of product_id (leading zeros included) and whatever k.
C6_SeedNeverAnAlternative ==
    AlternativesAnswered =>
       \A i \in 1..Len(resp.alternatives) :
          /\ resp.alternatives[i].id # resp.source_product.id
          /\ \A n \in 0..Len(resp.product_id) :
                SubSeq(resp.product_id, n + 1, Len(resp.product_id))
                   = resp.alternatives[i].id
                => \E m \in 1..n : resp.product_id[m] # 0

\* C6 witness: a zero-padded product_id was answered with alternatives
C6_Witness ==
    /\ AlternativesAnswered
    /\ Head(resp.product_id) = 0
    /\ resp.k >= 1
    /\ Len(resp.alternatives) >= 1

-----------------------------------------------------------------------------
(* Properties of the taste-vector store (Spec) *)

\* thread p's call returns in this step
GetReturns(p) ==
    calls'[p] # calls[p] /\ calls'[p].op = "get" /\ calls'[p].pc = "done"

SetReturns(p) ==
    calls'[p] # calls[p] /\ calls'[p].op = "set" /\ calls'[p].pc = "done"

\* C2: get(userId) returns the first hit of cache, external store, demo
\* vectors, else None; an error of the external call counts as a miss of
\* that tier (the demo tier is still consulted) and the call still returns.
C2_GetReturnsFirstHit ==
    [][\A p \in Procs :
          LET c == calls[p]
              d == calls'[p]
              u == d.user
          IN  /\ Returned(p) /\ d # c /\ d.op = "get" =>
                    IF u \in DOMAIN user_taste_vectors_cache
                    THEN d.pc = "done" /\ d.ret = user_taste_vectors_cache[u]
                    ELSE IF supabase
                    THEN d.pc = "select"
                    ELSE d.pc = "done" /\ d.ret = Get(demo_taste_vectors, u)
              /\ c.pc = "select" /\ d # c =>
                    \/ /\ d.pc = "cache_write"
                       /\ u \in DOMAIN remote_table
                       /\ d.fetched = remote_table[u]
                    \/ /\ d.pc = "done"
                       /\ d.ret = Get(demo_taste_vectors, u)
              /\ c.pc = "cache_write" /\ d # c =>
                    d.pc = "done" /\ d.ret = c.fetched /\ d.ret # None
      ]_vars

\* C2 witness: the external call raised and the get returned the demo vector
C2_Witness ==
    \E p \in Procs :
       /\ calls[p].op = "get"
       /\ calls[p].pc = "done"
       /\ calls[p].tier = "error"
       /\ calls[p].ret = DemoVector

\* C3 as stated: when set(u, v) returns, true or false, the cache holds v
\* for u.
C3_SetCachesWhateverTheOutcome ==
    [][\A p \in Procs :
          SetReturns(p) =>
             Get(user_taste_vectors_cache', calls'[p].user) = calls'[p].arg
      ]_vars

\* C3 as amended: set(u, v) writes the cache only after the external upsert
\* was applied: a set that returns true leaves v cached for u, a set that
\* returns false (no client, or the upsert raised) leaves the cache as it
\* was, and it returns true exactly when the upsert was applied.
C3_SetCachesOnSuccessOnly ==
    [][\A p \in Procs :
          LET c == calls[p]
              d == calls'[p]
          IN  /\ SetReturns(p) =>
                    IF d.ok
                    THEN /\ c.pc = "set_cache"
                         /\ Get(user_taste_vectors_cache', d.user) = d.arg
                    ELSE /\ c.pc # "set_cache"
                         /\ user_taste_vectors_cache' = user_taste_vectors_cache
                         /\ remote_table' = remote_table
              /\ c.pc = "upsert" /\ d.pc = "set_cache" =>
                    Get(remote_table', d.user) = d.arg
              /\ c.pc = "set_cache" /\ d # c => d.pc = "done" /\ d.ok
      ]_vars

\* C3 witness: one set returned true and its vector is cached; another
\* returned false after the upsert raised and its user has no cache entry
C3_Witness ==
    \E p, q \in Procs :
       /\ calls[p].op = "set" /\ calls[p].pc = "done" /\ calls[p].ok
       /\ Get(user_taste_vectors_cache, calls[p].user) = calls[p].arg
       /\ calls[q].op = "set" /\ calls[q].pc = "done" /\ ~calls[q].ok
       /\ calls[q].tier = "error"
       /\ calls[q].user \notin DOMAIN user_taste_vectors_cache

\* C10: once every call has returned, the vector cached for a user is the
\* vector the external store holds for that user.
C10_CacheAgreesWithStore ==
    (\A p \in Procs : Returned(p)) =>
       \A u \in DOMAIN user_taste_vectors_cache :
          /\ u \in DOMAIN remote_table
          /\ remote_table[u] = user_taste_vectors_cache[u]

-----------------------------------------------------------------------------
(* Properties of the handlers that branch on the taste profile (SpecApi) *)

\* what get(u) returns in the current state when the external call succeeds
TasteLookup(u) ==
    IF u \in DOMAIN user_taste_vectors_cache THEN user_taste_vectors_cache[u]
    ELSE IF supabase /\ u \in DOMAIN remote_table THEN remote_table[u]
    ELSE Get(demo_taste_vectors, u)

\* C4: get_personalized_catalog answers the cold-start list exactly when
\* get(user) is None, and a ranked list otherwise.
C4_ColdStartExactlyWhenNoProfile ==
    [][\A u \in Users, k \in Ks :
          GetPersonalizedCatalog(u, k) =>
             /\ resp'.kind = "ok"
             /\ resp'.is_cold_start = (TasteLookup(u) = None)
      ]_vars

ColdStartList(r, k) ==
    /\ r.kind = "ok"
    /\ Len(r.products) = Min(k, Len(popular_products))
    /\ \A i \in 1..Len(r.products) : "affinity_score" \in DOMAIN r.products[i]

\* C11 (section 2 of the discovery feed repeats no id of section 1 and no id
\* twice) has no formula here: get_discovery_feed raises at its first branch
\* (discovery.py line 19), before it builds a section, so no behaviour has it
\* return the two sections.

\* C9: at both cold-start call sites (the personalized catalog, and section 1
\* of the discovery feed with k = 5) the answer holds exactly
\* min(k, len(popular_products)) items, each with an affinity score.
C9_ColdStartFallbackSize ==
    [][/\ \A u \in Users, k \in Ks :
             GetPersonalizedCatalog(u, k) /\ TasteLookup(u) = None =>
                ColdStartList(resp', k)
       /\ \A u \in Users :
             GetDiscoveryFeed(u) /\ TasteLookup(u) = None =>
                ColdStartList(resp', DiscoverySectionSize)
      ]_vars

-----------------------------------------------------------------------------
(* Obtaining the service: get_embedding_service (an lru_cache over          *)
(* EmbeddingService()) and EmbeddingService.__new__.  The serving layer     *)
(* runs each request's dependency in a thread of its pool; lru_cache lets   *)
(* concurrent misses each call the function, and __new__ takes no lock, so  *)
(* a thread switch can fall between any two of its statements.              *)

data == <<embeddings, id_to_idx, idx_to_id, products, popular_products,
          demo_taste_vectors, supabase>>

Thread(p) == singleton.threads[p]

\* the singleton state with thread p at t
Step(p, t) == [singleton EXCEPT !.threads[p] = t]

\* lines 149-151: the memo is read; a hit returns the memoised instance
Request(p) ==
    /\ Thread(p).pc \in {"idle", "done"}
    /\ singleton' =
          IF singleton.memo # NoObject
          THEN Step(p, [IdleThread EXCEPT !.pc = "done", !.got = singleton.memo])
          ELSE Step(p, [IdleThread EXCEPT !.pc = "check"])
    /\ UNCHANGED <<data, user_taste_vectors_cache, remote_table, calls, resp>>

\* line 23: `if cls._instance is None`
NewCheck(p) ==
    /\ Thread(p).pc = "check"
    /\ singleton' =
          Step(p, [Thread(p) EXCEPT !.pc = IF singleton.instance = NoObject
                                            THEN "create" ELSE "return"])
    /\ UNCHANGED <<data, user_taste_vectors_cache, remote_table, calls, resp>>

\* line 24: `cls._instance = super().__new__(cls)`
NewCreate(p) ==
    /\ Thread(p).pc = "create"
    /\ singleton' = [Step(p, [Thread(p) EXCEPT !.pc = "load"])
                        EXCEPT !.instance = NewObject(p)]
    /\ UNCHANGED <<data, user_taste_vectors_cache, remote_table, calls, resp>>

\* line 25, the call: `cls._instance._load()` reads cls._instance and enters
\* _load on that object
LoadBegin(p) ==
    /\ Thread(p).pc = "load"
    /\ LET o == singleton.instance IN
       singleton' = [Step(p, [Thread(p) EXCEPT !.pc = "loading", !.target = o])
                        EXCEPT !.loads = @ + 1,
                               !.load[o] = IF @ = "done" THEN "done" ELSE "loading"]
    /\ UNCHANGED <<data, user_taste_vectors_cache, remote_table, calls, resp>>

\* lines 28-62: _load has set every attribute of the object
LoadEnd(p) ==
    /\ Thread(p).pc = "loading"
    /\ singleton' = [Step(p, [Thread(p) EXCEPT !.pc = "return"])
                        EXCEPT !.load[Thread(p).target] = "done"]
    /\ UNCHANGED <<data, user_taste_vectors_cache, remote_table, calls, resp>>

\* the instance a thread of __new__ hands back (line 26)
InstanceRead(p) == singleton.instance

\* line 26 `return cls._instance`, and lru_cache keeping the result of the
\* first call to return
NewReturn(p) ==
    /\ Thread(p).pc = "return"
    /\ LET o == InstanceRead(p) IN
       singleton' = [Step(p, [Thread(p) EXCEPT !.pc = "done", !.got = o])
                        EXCEPT !.memo = IF @ = NoObject THEN o ELSE @]
    /\ UNCHANGED <<data, user_taste_vectors_cache, remote_table, calls, resp>>

NextLoad ==
    \/ \E p \in Procs : Request(p)
    \/ \E p \in Procs : NewCheck(p)
    \/ \E p \in Procs : NewCreate(p)
    \/ \E p \in Procs : LoadBegin(p)
    \/ \E p \in Procs : LoadEnd(p)
    \/ \E p \in Procs : NewReturn(p)

SpecLoad == InitLoad /\ [][NextLoad]_vars

\* C12: when several first requests obtain the service concurrently, _load
\* runs at most once, and no request receives an instance whose _load has
\* not run to its end.
C12_LoadedOnceBeforeUse ==
    [][/\ singleton'.loads <= 1
       /\ \A p \in Procs :
             /\ Thread(p).pc # "done"
             /\ singleton'.threads[p].pc = "done"
             => singleton'.load[singleton'.threads[p].got] = "done"
      ]_vars

====
